---- MODULE Spec2Model ----
(***************************************************************************)
(* A model of streamlit_app.py (Job Finder): the keyword filter, the two   *)
(* board scrapers, the aggregation loop, the parsing of the company lines, *)
(* the shortlist kept in the session state and the Streamlit script runs.  *)
(*                                                                         *)
(* Text is a sequence of atoms.  An atom is a one-character string ("a",   *)
(* "A", " ") or a whole word that none of the other atoms can spell        *)
(* ("Remote", "(lever)"), so that substring, prefix and suffix tests on    *)
(* sequences of atoms agree with Python's tests on the spelled-out text.   *)
(***************************************************************************)
EXTENDS Integers, Sequences, FiniteSets, TLC

VARIABLES
    saved_jobs,         \* st.session_state["saved_jobs"]
    job_row,            \* the argument of the last save_job call
    f_jobs,             \* filter_results: the jobs argument
    f_kw,               \* filter_results: <<role_kw, loc_kw, extra_kw>>
    f_out,              \* filter_results: the returned list
    pc,                 \* the position of the running script / function
    companies_input,    \* the text area, one element per line
    lever_targets,      \* main: lever_targets
    greenhouse_targets, \* main: greenhouse_targets
    idx,                \* fetch_all_jobs: the position in the list being walked
    out,                \* the running scraper's out list
    jobs,               \* fetch_all_jobs: jobs
    raised,             \* an exception has left fetch_all_jobs
    log,                \* the responses every fetched target received, in fetch order
    all_jobs_df,        \* main: the rows on display
    pick,               \* main: the selectbox's value
    trigger,            \* the widget whose event started the last script run
    selected            \* the row that was selected when "Save Selected" was clicked

vars == <<saved_jobs, job_row, f_jobs, f_kw, f_out, pc, companies_input,
          lever_targets, greenhouse_targets, idx, out, jobs, raised, log,
          all_jobs_df, pick, trigger, selected>>

storeVars   == <<saved_jobs, job_row>>
filterVars  == <<f_jobs, f_kw, f_out>>
fetchVars   == <<companies_input, lever_targets, greenhouse_targets, idx, out,
                 jobs, raised, log>>
sessionVars == <<all_jobs_df, pick, trigger, selected>>

\* ---------------------------------------------------------------- bounds
NumUrls     == 3    \* distinct urls a posting may carry
MaxJobs     == 2    \* length of the list handed to filter_results
MaxItems    == 2    \* entries of a structured job array
MaxPostings == 2    \* div.posting containers of a listing page
MaxLines    == 2    \* lines of the company text area
MaxLineLen  == 3    \* atoms of one line of the text area

SeqsUpTo(S, n) == UNION {[1..k -> S] : k \in 0..n}

\* ---------------------------------------------------------------- text
\* str.lower(), atom by atom
LowerAtom(c) ==
    CASE c = "A" -> "a"
      [] c = "Remote" -> "remote"
      [] c = "Anywhere" -> "anywhere"
      [] c = "(Lever)" -> "(lever)"
      [] c = "(GREENHOUSE)" -> "(greenhouse)"
      [] OTHER -> c

Lower(s) == [i \in 1..Len(s) |-> LowerAtom(s[i])]

IsSpace(c) == c = " "

RECURSIVE LStrip(_)
LStrip(s) == IF s # <<>> /\ IsSpace(Head(s)) THEN LStrip(Tail(s)) ELSE s

RECURSIVE RStrip(_)
RStrip(s) ==
    IF s # <<>> /\ IsSpace(s[Len(s)]) THEN RStrip(SubSeq(s, 1, Len(s) - 1)) ELSE s

\* str.strip()
Strip(s) == RStrip(LStrip(s))

\* Python's  needle in hay  on text
Contains(needle, hay) ==
    \E i \in 0..(Len(hay) - Len(needle)) : SubSeq(hay, i + 1, i + Len(needle)) = needle

SP == <<" ">>

\* ---------------------------------------------------------------- filter_results
\* " ".join([title, company, location, source]).lower()
Blob(job) == Lower(job.title \o SP \o job.company \o SP \o job.location \o SP \o job.source)

\* The loop body of filter_results with the keywords already trimmed and lower-cased:
\* TRUE when no  continue  is taken.
Keeps(job, role_kw, loc_kw, extra_kw) ==
    /\ ~(role_kw # <<>> /\ ~Contains(role_kw, Lower(job.title)))
    /\ ~(loc_kw # <<>> /\ ~Contains(loc_kw, Lower(job.location) \o SP \o Lower(job.title)))
    /\ ~(extra_kw # <<>> /\ ~Contains(extra_kw, Blob(job)))

\* A slip of the filter: the location keyword is looked up in the location alone.
filter_results_loc_only(js, role_kw, loc_kw, extra_kw) ==
    SelectSeq(js, LAMBDA job :
        /\ ~(Lower(Strip(role_kw)) # <<>> /\ ~Contains(Lower(Strip(role_kw)), Lower(job.title)))
        /\ ~(Lower(Strip(loc_kw)) # <<>> /\ ~Contains(Lower(Strip(loc_kw)), Lower(job.location)))
        /\ ~(Lower(Strip(extra_kw)) # <<>> /\ ~Contains(Lower(Strip(extra_kw)), Blob(job))))

filter_results(js, role_kw, loc_kw, extra_kw) ==
    SelectSeq(js, LAMBDA job :
        Keeps(job, Lower(Strip(role_kw)), Lower(Strip(loc_kw)), Lower(Strip(extra_kw))))

Keywords == SeqsUpTo({"A", " "}, 2) \cup {<<"a">>, <<"A", " ", "a">>}
FilterJobs ==
    [title : {<<>>, <<"A">>}, company : {<<>>, <<"a">>},
     location : {<<>>, <<"a">>}, source : {<<"A">>}]

NoKw == <<<<>>, <<>>, <<>>>>

\* ---------------------------------------------------------------- save_job
Urls == 1..NumUrls
Titles == {"QA", "SDET", "AI"}
Postings == [url : Urls, title : Titles]

UrlsOf(saved) == {saved[i].url : i \in 1..Len(saved)}

\* A slip of the store: the whole row, not its url, is looked up.
save_job_whole_row(saved, row) ==
    IF row \notin {saved[i] : i \in 1..Len(saved)} THEN Append(saved, row) ELSE saved

save_job(saved, row) ==
    IF row.url \notin UrlsOf(saved) THEN Append(saved, row) ELSE saved

\* ---------------------------------------------------------------- JSON values
\* A value found under a key of a JSON object: the key is absent, or it holds
\* null, a string (val is its text) or a number (val is its decimal spelling).
Absent   == [kind |-> "absent", val |-> <<>>]
Null     == [kind |-> "null", val |-> <<>>]
Str(s)   == [kind |-> "str", val |-> s]
Num(s)   == [kind |-> "num", val |-> s]
EmptyStr == Str(<<>>)

\* dict.get(key, default)
Get(v, default) == IF v.kind = "absent" THEN default ELSE v

\* Python's truth value of a JSON value
Truthy(v) ==
    \/ v.kind = "str" /\ v.val # <<>>
    \/ v.kind = "num" /\ v.val # <<"0">>

\* ---------------------------------------------------------------- guess_remote
RemoteKeywords == {<<"remote">>, <<"anywhere">>, <<"work from home">>, <<"distributed">>}

\* [exc, val]: text.lower() raises AttributeError on a truthy value that is no string.
guess_remote(text) ==
    IF ~Truthy(text) THEN [exc |-> FALSE, val |-> FALSE]
    ELSE IF text.kind # "str" THEN [exc |-> TRUE, val |-> FALSE]
    ELSE [exc |-> FALSE, val |-> \E k \in RemoteKeywords : Contains(k, Lower(text.val))]

\* ---------------------------------------------------------------- records
Record(company, title, location, remote, source, url, date_posted) ==
    [company |-> company, title |-> title, location |-> location, remote |-> remote,
     source |-> source, url |-> url, date_posted |-> date_posted]

NoRecord == Record(<<>>, Absent, Absent, FALSE, "", Absent, Absent)

\* ---------------------------------------------------------------- scrape_lever, JSON path
\* datetime.utcfromtimestamp(int(x) / 1000.0).strftime("%Y-%m-%d"), on the
\* spellings the responses below carry; int() raises on any other text.
IsMillis(s) == s \in {<<"1700000000000">>, <<"86400000">>}
MillisToDate(s) == IF s = <<"1700000000000">> THEN <<"2023-11-14">> ELSE <<"1970-01-02">>

\* lines 75-82
LeverDate(createdAt) ==
    LET date_posted == Get(createdAt, EmptyStr)
    IN  IF Truthy(date_posted) /\ IsMillis(date_posted.val)
        THEN Str(MillisToDate(date_posted.val))
        ELSE date_posted

\* item.get("additional", {}).get("location", ""): [exc, val]
NestedGet(outer, inner) ==
    CASE outer.kind = "absent" -> [exc |-> FALSE, val |-> EmptyStr]
      [] outer.kind = "obj"    -> [exc |-> FALSE, val |-> Get(outer[inner], EmptyStr)]
      [] OTHER                 -> [exc |-> TRUE, val |-> EmptyStr]

\* One turn of the loop of lines 70-92: [exc, rec]
LeverItem(company_handle, item) ==
    IF ~item.isobj THEN [exc |-> TRUE, rec |-> NoRecord]
    ELSE
      LET title == Get(item.text, EmptyStr)
          loc == NestedGet(item.additional, "location")
          lever_url == Get(item.hostedUrl, EmptyStr)
          date_posted == LeverDate(item.createdAt)
          remote == guess_remote(loc.val)
      IN  IF loc.exc \/ remote.exc THEN [exc |-> TRUE, rec |-> NoRecord]
          ELSE [exc |-> FALSE,
                rec |-> Record(company_handle, title, loc.val, remote.val, "Lever",
                               lever_url, date_posted)]

\* The for loop over the entries: [exc, out], out being what was appended before
\* an entry raised.
RECURSIVE LeverLoop(_, _, _)
LeverLoop(company_handle, items, acc) ==
    IF items = <<>> THEN [exc |-> FALSE, out |-> acc]
    ELSE LET r == LeverItem(company_handle, Head(items))
         IN  IF r.exc THEN [exc |-> TRUE, out |-> acc]
             ELSE LeverLoop(company_handle, Tail(items), Append(acc, r.rec))

StatusOK == 200

\* line 68, with the status check forgotten
LeverJsonOk_no_status(resp) == resp.json_ctype

\* line 68
LeverJsonOk(resp) == resp.status = StatusOK /\ resp.json_ctype

\* for item in data, by the shape of data: a dict yields its keys (strings), None
\* is not iterable.
LeverData(company_handle, body) ==
    CASE body.shape = "invalid" -> [exc |-> TRUE, out |-> <<>>]
      [] body.shape = "null"    -> [exc |-> TRUE, out |-> <<>>]
      [] body.shape = "empty_object" -> [exc |-> FALSE, out |-> <<>>]
      [] body.shape = "object"  -> [exc |-> TRUE, out |-> <<>>]
      [] OTHER                  -> LeverLoop(company_handle, body.items, <<>>)

\* Lines 66-95, the first try block: [returned, out].  returned: line 93 was
\* reached; otherwise control goes on to the HTML fallback with the out so far.
LeverJsonPath(company_handle, resp) ==
    IF resp.net # "ok" THEN [returned |-> FALSE, out |-> <<>>]
    ELSE IF ~LeverJsonOk(resp) THEN [returned |-> FALSE, out |-> <<>>]
    ELSE LET r == LeverData(company_handle, resp.body)
         IN  [returned |-> ~r.exc, out |-> r.out]

\* ---------------------------------------------------------------- scrape_lever, HTML path
LeverOrigin == <<"https://", "jobs.lever.co">>
StartsWithHttp(s) == s # <<>> /\ s[1] \in {"https://", "http://"}

\* lines 106-124: one div.posting; a missing element is Absent.
LeverPosting(company_handle, p) ==
    LET title == IF p.title_el.kind = "absent" THEN <<>> ELSE Strip(p.title_el.val)
        loc == IF p.loc_el.kind = "absent" THEN <<>> ELSE Strip(p.loc_el.val)
        href0 == IF p.link.kind = "str" THEN p.link.val ELSE <<>>
        href == IF href0 # <<>> /\ ~StartsWithHttp(href0) THEN LeverOrigin \o href0 ELSE href0
    IN  Record(company_handle, Str(title), Str(loc), guess_remote(Str(loc)).val, "Lever",
               Str(href), EmptyStr)

\* Lines 98-128 from the out the JSON path left: the list scrape_lever returns.
LeverHtmlPath(company_handle, resp, acc) ==
    IF resp.net # "ok" THEN acc
    ELSE IF resp.status # StatusOK THEN acc
    ELSE acc \o [i \in 1..Len(resp.postings) |-> LeverPosting(company_handle, resp.postings[i])]

\* ---------------------------------------------------------------- scrape_greenhouse
DateLen == 10

AtomWidth(c) == IF c \in {"2023-11-14", "T10:00:00Z"} THEN 10 ELSE 1

\* s[:n]
RECURSIVE Prefix(_, _)
Prefix(s, n) ==
    IF s = <<>> \/ AtomWidth(Head(s)) > n THEN <<>>
    ELSE <<Head(s)>> \o Prefix(Tail(s), n - AtomWidth(Head(s)))

\* job.get("updated_at", "")[:10]: [exc, val]; None and numbers have no slice.
GreenhouseDate(updated_at) ==
    LET v == Get(updated_at, EmptyStr)
    IN  IF v.kind = "str" THEN [exc |-> FALSE, val |-> Str(Prefix(v.val, DateLen))]
        ELSE [exc |-> TRUE, val |-> EmptyStr]

\* One turn of the loop of lines 149-163: [exc, rec]
GreenhouseItem(board_token, job) ==
    IF ~job.isobj THEN [exc |-> TRUE, rec |-> NoRecord]
    ELSE
      LET title == Get(job.title, EmptyStr)
          locs == NestedGet(job.location, "name")
          gh_url == Get(job.absolute_url, EmptyStr)
          date_posted == GreenhouseDate(job.updated_at)
          remote == guess_remote(locs.val)
      IN  IF locs.exc \/ date_posted.exc \/ remote.exc THEN [exc |-> TRUE, rec |-> NoRecord]
          ELSE [exc |-> FALSE,
                rec |-> Record(board_token, title, locs.val, remote.val, "Greenhouse",
                               gh_url, date_posted.val)]

RECURSIVE GreenhouseLoop(_, _, _)
GreenhouseLoop(board_token, items, acc) ==
    IF items = <<>> THEN [exc |-> FALSE, out |-> acc]
    ELSE LET r == GreenhouseItem(board_token, Head(items))
         IN  IF r.exc THEN [exc |-> TRUE, out |-> acc]
             ELSE GreenhouseLoop(board_token, Tail(items), Append(acc, r.rec))

\* data.get("jobs", []) and the loop, by the shape of data: only a dict has get.
GreenhouseData(board_token, body) ==
    CASE body.shape = "invalid" -> [exc |-> TRUE, out |-> <<>>]
      [] body.shape = "null"    -> [exc |-> TRUE, out |-> <<>>]
      [] body.shape = "array"   -> [exc |-> TRUE, out |-> <<>>]
      [] body.shape = "empty_object" -> [exc |-> FALSE, out |-> <<>>]
      [] OTHER                  -> GreenhouseLoop(board_token, body.items, <<>>)

\* The try body of lines 145-163: [exc, out].
GreenhouseBody(board_token, resp) ==
    IF resp.net # "ok" THEN [exc |-> TRUE, out |-> <<>>]
    ELSE IF resp.status # StatusOK THEN [exc |-> FALSE, out |-> <<>>]
    ELSE GreenhouseData(board_token, resp.body)

\* scrape_greenhouse without its  except Exception: pass
scrape_greenhouse_no_except(board_token, resp) == GreenhouseBody(board_token, resp)

\* Lines 135-167: [exc, out], exc being an exception that leaves the function.
scrape_greenhouse(board_token, resp) ==
    [exc |-> FALSE, out |-> GreenhouseBody(board_token, resp).out]

\* ---------------------------------------------------------------- fetch_all_jobs
\* Where fetch_all_jobs goes once the target at position i of the list it is
\* walking is done: <<pc, idx>>.
AfterLever(lt, gt, i) ==
    IF i < Len(lt) THEN <<"lever_json", i + 1>>
    ELSE IF gt # <<>> THEN <<"greenhouse", 1>>
    ELSE <<"done", 0>>

AfterGreenhouse(gt, i) ==
    IF i < Len(gt) THEN <<"greenhouse", i + 1>> ELSE <<"done", 0>>

\* Where fetch_all_jobs starts.
FirstFetch(lt, gt) == AfterLever(lt, gt, 0)

\* ---------------------------------------------------------------- main, lines 226-239
RemoveAtom(s, a) == SelectSeq(s, LAMBDA c : c # a)
EndsWith(s, a) == s # <<>> /\ s[Len(s)] = a

\* A slip of the parsing: a target is put at the front of its list.
ParseLine_prepend(t, line) ==
    LET raw == Strip(line)
    IN  IF raw = <<>> THEN t
        ELSE IF EndsWith(raw, "(lever)")
        THEN [t EXCEPT !.lever = <<Strip(RemoveAtom(raw, "(lever)"))>> \o @]
        ELSE IF EndsWith(raw, "(greenhouse)")
        THEN [t EXCEPT !.greenhouse = <<Strip(RemoveAtom(raw, "(greenhouse)"))>> \o @]
        ELSE [t EXCEPT !.lever = <<raw>> \o @]

\* One turn of the loop over the lines, from the lists so far: [lever, greenhouse]
ParseLine(t, line) ==
    LET raw == Strip(line)
    IN  IF raw = <<>> THEN t
        ELSE IF EndsWith(raw, "(lever)")
        THEN [t EXCEPT !.lever = Append(@, Strip(RemoveAtom(raw, "(lever)")))]
        ELSE IF EndsWith(raw, "(greenhouse)")
        THEN [t EXCEPT !.greenhouse = Append(@, Strip(RemoveAtom(raw, "(greenhouse)")))]
        ELSE [t EXCEPT !.lever = Append(@, raw)]

RECURSIVE ParseLines(_, _)
ParseLines(t, lines) ==
    IF lines = <<>> THEN t ELSE ParseLines(ParseLine(t, Head(lines)), Tail(lines))

ParseCompanies(lines) == ParseLines([lever |-> <<>>, greenhouse |-> <<>>], lines)

\* ---------------------------------------------------------------- responses
Body(shape, items) == [shape |-> shape, items |-> items]
Http(status, json_ctype, body) ==
    [net |-> "ok", status |-> status, json_ctype |-> json_ctype, body |-> body]
NetError(how) ==
    [net |-> how, status |-> 0, json_ctype |-> FALSE, body |-> Body("invalid", <<>>)]
NetErrors == {NetError("error"), NetError("timeout")}

Page(status, postings) == [net |-> "ok", status |-> status, postings |-> postings]
PageError(how) == [net |-> how, status |-> 0, postings |-> <<>>]
NoPage == PageError("none")

Additional(location) == [kind |-> "obj", location |-> location]
NoObject(kind) == [kind |-> kind, location |-> Absent]

GoodLeverItem ==
    [isobj |-> TRUE, text |-> Str(<<"Senior", "QA">>),
     additional |-> Additional(Str(<<"Remote", "US">>)),
     hostedUrl |-> Str(<<"https://", "x", "/1">>), createdAt |-> Str(<<"1700000000000">>)]

OtherLeverItem ==
    [isobj |-> TRUE, text |-> Str(<<"Junior", "Dev">>),
     additional |-> Additional(Str(<<"Onsite">>)),
     hostedUrl |-> Str(<<"https://", "x", "/2">>), createdAt |-> Num(<<"86400000">>)]

NonObjectLeverItem == [GoodLeverItem EXCEPT !.isobj = FALSE]

\* An entry with one field missing, null or of another type.
MalformedLeverItems ==
    {[GoodLeverItem EXCEPT !.text = v] : v \in {Absent, Null}}
    \cup {[GoodLeverItem EXCEPT !.additional = v] :
            v \in {NoObject("absent"), NoObject("null"), Additional(Absent),
                   Additional(Null), Additional(Num(<<"7">>))}}
    \cup {[GoodLeverItem EXCEPT !.hostedUrl = Null]}
    \cup {[GoodLeverItem EXCEPT !.createdAt = v] : v \in {Null, Str(<<"soon">>), Num(<<"0">>)}}
    \cup {NonObjectLeverItem}

LeverItems == {GoodLeverItem, OtherLeverItem} \cup MalformedLeverItems

Place(name) == [kind |-> "obj", name |-> name]
NoPlace(kind) == [kind |-> kind, name |-> Absent]

GoodGreenhouseItem ==
    [isobj |-> TRUE, title |-> Str(<<"Senior", "QA">>),
     location |-> Place(Str(<<"Anywhere">>)),
     absolute_url |-> Str(<<"https://", "g", "/1">>),
     updated_at |-> Str(<<"2023-11-14", "T10:00:00Z">>)]

OtherGreenhouseItem ==
    [isobj |-> TRUE, title |-> Str(<<"Junior", "Dev">>),
     location |-> Place(Str(<<"Onsite">>)),
     absolute_url |-> Str(<<"https://", "g", "/2">>),
     updated_at |-> Str(<<"soon">>)]

NonObjectGreenhouseItem == [GoodGreenhouseItem EXCEPT !.isobj = FALSE]

MalformedGreenhouseItems ==
    {[GoodGreenhouseItem EXCEPT !.title = v] : v \in {Absent, Null}}
    \cup {[GoodGreenhouseItem EXCEPT !.location = v] :
            v \in {NoPlace("absent"), NoPlace("null"), Place(Absent), Place(Null)}}
    \cup {[GoodGreenhouseItem EXCEPT !.absolute_url = v] : v \in {Absent, Null}}
    \cup {[GoodGreenhouseItem EXCEPT !.updated_at = v] : v \in {Absent, Null}}
    \cup {NonObjectGreenhouseItem}

GreenhouseItems == {GoodGreenhouseItem, OtherGreenhouseItem} \cup MalformedGreenhouseItems

OtherShapes == {Body(sh, <<>>) : sh \in {"invalid", "null", "empty_object"}}

\* What https://jobs.lever.co/{handle}?mode=json may answer.  A response the code
\* never reads the body of carries one of two bodies.
LeverJsonResponses ==
    NetErrors
    \cup {Http(st, ct, b) : st \in {204, 404, 500}, ct \in BOOLEAN,
                            b \in {Body("invalid", <<>>), Body("array", <<GoodLeverItem>>)}}
    \cup {Http(StatusOK, FALSE, b) :
            b \in {Body("invalid", <<>>), Body("array", <<GoodLeverItem>>)}}
    \cup {Http(StatusOK, TRUE, b) :
            b \in OtherShapes \cup {Body("object", <<GoodLeverItem>>)}
                  \cup {Body("array", items) : items \in SeqsUpTo(LeverItems, MaxItems)}}

\* What https://boards-api.greenhouse.io/v1/boards/{token}/jobs may answer.
GreenhouseResponses ==
    NetErrors
    \cup {Http(st, ct, b) : st \in {204, 404, 500}, ct \in BOOLEAN,
                            b \in {Body("invalid", <<>>), Body("object", <<GoodGreenhouseItem>>)}}
    \cup {Http(StatusOK, ct, b) : ct \in BOOLEAN,
            b \in OtherShapes \cup {Body("array", <<GoodGreenhouseItem>>)}
                  \cup {Body("object", items) : items \in SeqsUpTo(GreenhouseItems, MaxItems)}}

GoodPosting ==
    [title_el |-> Str(<<"Senior", "QA">>), loc_el |-> Str(<<" ", "Remote">>),
     link |-> Str(<<"/acme/1">>)]

BarePosting == [title_el |-> Absent, loc_el |-> Absent, link |-> Absent]

LeverPostings ==
    {GoodPosting, BarePosting,
     [GoodPosting EXCEPT !.link = Null],
     [GoodPosting EXCEPT !.link = Str(<<"https://", "x", "/1">>)]}

\* What https://jobs.lever.co/{handle} may answer; a link of Null is an
\* a.posting-title without href.
LeverHtmlResponses ==
    {PageError("error"), PageError("timeout"), Page(404, <<>>), Page(500, <<GoodPosting>>)}
    \cup {Page(StatusOK, ps) : ps \in SeqsUpTo(LeverPostings, MaxPostings)}

\* The answers drawn while several targets are fetched in one run.
FewLeverJsonResponses ==
    {NetError("error"), Http(500, TRUE, Body("invalid", <<>>)),
     Http(StatusOK, TRUE, Body("array", <<>>)),
     Http(StatusOK, TRUE, Body("array", <<GoodLeverItem>>)),
     Http(StatusOK, TRUE, Body("array", <<OtherLeverItem, NonObjectLeverItem>>))}
FewLeverHtmlResponses ==
    {PageError("timeout"), Page(500, <<>>), Page(StatusOK, <<GoodPosting>>)}
FewGreenhouseResponses ==
    {NetError("timeout"), Http(404, TRUE, Body("invalid", <<>>)),
     Http(StatusOK, TRUE, Body("invalid", <<>>)),
     Http(StatusOK, TRUE, Body("object", <<GoodGreenhouseItem>>)),
     Http(StatusOK, TRUE,
          Body("object", <<OtherGreenhouseItem,
                           [GoodGreenhouseItem EXCEPT !.updated_at = Null]>>))}

Fetched(platform, id, api) == [platform |-> platform, id |-> id, api |-> api, html |-> NoPage]

\* ---------------------------------------------------------------- the script run up to fetch_all_jobs
\* The requests.get of line 67 for lever_targets[idx] and what follows it up to
\* the next request.
LeverJsonRequest(Responses) ==
    \E resp \in Responses :
        LET c == lever_targets[idx]
            r == LeverJsonPath(c, resp)
            after == AfterLever(lever_targets, greenhouse_targets, idx)
        IN  /\ pc = "lever_json"
            /\ log' = Append(log, Fetched("Lever", c, resp))
            /\ IF r.returned
               THEN /\ jobs' = jobs \o r.out
                    /\ out' = <<>>
                    /\ pc' = after[1]
                    /\ idx' = after[2]
               ELSE /\ out' = r.out
                    /\ pc' = "lever_html"
                    /\ UNCHANGED <<jobs, idx>>
            /\ UNCHANGED <<companies_input, lever_targets, greenhouse_targets, raised,
                           storeVars, filterVars, sessionVars>>

\* The requests.get of line 100 and the rest of scrape_lever.
LeverHtmlRequest(Responses) ==
    \E resp \in Responses :
        LET c == lever_targets[idx]
            after == AfterLever(lever_targets, greenhouse_targets, idx)
        IN  /\ pc = "lever_html"
            /\ log' = [log EXCEPT ![Len(log)].html = resp]
            /\ jobs' = jobs \o LeverHtmlPath(c, resp, out)
            /\ out' = <<>>
            /\ pc' = after[1]
            /\ idx' = after[2]
            /\ UNCHANGED <<companies_input, lever_targets, greenhouse_targets, raised,
                           storeVars, filterVars, sessionVars>>

\* The requests.get of line 145 for greenhouse_targets[idx] and the rest of
\* scrape_greenhouse.
GreenhouseRequest(Responses) ==
    \E resp \in Responses :
        LET g == greenhouse_targets[idx]
            r == scrape_greenhouse(g, resp)
            after == AfterGreenhouse(greenhouse_targets, idx)
        IN  /\ pc = "greenhouse"
            /\ log' = Append(log, Fetched("Greenhouse", g, resp))
            /\ IF r.exc
               THEN /\ raised' = TRUE
                    /\ pc' = "done"
                    /\ idx' = 0
                    /\ UNCHANGED jobs
               ELSE /\ jobs' = jobs \o r.out
                    /\ pc' = after[1]
                    /\ idx' = after[2]
                    /\ UNCHANGED raised
            /\ UNCHANGED <<companies_input, lever_targets, greenhouse_targets, out,
                           storeVars, filterVars, sessionVars>>

\* The search form is submitted: lines 226-241 up to the first request.
Submit ==
    LET t == ParseCompanies(companies_input)
        first == FirstFetch(t.lever, t.greenhouse)
    IN  /\ pc = "form"
        /\ lever_targets' = t.lever
        /\ greenhouse_targets' = t.greenhouse
        /\ pc' = first[1]
        /\ idx' = first[2]
        /\ UNCHANGED <<companies_input, out, jobs, raised, log,
                       storeVars, filterVars, sessionVars>>

\* scrape_lever as one call, given the answers to its two requests (the second
\* is read only when the first try block does not return).
scrape_lever(company_handle, json_resp, html_resp) ==
    LET r == LeverJsonPath(company_handle, json_resp)
    IN  IF r.returned THEN r.out ELSE LeverHtmlPath(company_handle, html_resp, r.out)

\* ---------------------------------------------------------------- main as a Streamlit script
MaxRows == 2

\* One run of main() started by an event of the widget trig, rows being what
\* fetch_all_jobs and filter_results give if they are called (lines 241-249):
\* form_submit_button and button return True only in the run their own click
\* started, and the button of line 275 is created inside  if submitted.
MainRun(trig, rows, choice, saved) ==
    LET submitted == trig = "search"
        shown == IF submitted THEN rows ELSE <<>>
        save_clicked == submitted /\ shown # <<>> /\ trig = "save"
    IN  [all_jobs_df |-> shown,
         saved_jobs |-> IF save_clicked THEN save_job(saved, shown[choice + 1]) ELSE saved]

\* ---------------------------------------------------------------- idle values
IdleStore   == saved_jobs = <<>> /\ job_row = [url |-> 0, title |-> ""]
IdleFilter  == f_jobs = <<>> /\ f_kw = NoKw /\ f_out = <<>>
IdleFetch   ==
    /\ companies_input = <<>> /\ lever_targets = <<>> /\ greenhouse_targets = <<>>
    /\ idx = 0 /\ out = <<>> /\ jobs = <<>> /\ raised = FALSE /\ log = <<>>
IdleSession == all_jobs_df = <<>> /\ pick = 0 /\ trigger = "" /\ selected = [url |-> 0, title |-> ""]

\* ---------------------------------------------------------------- the shortlist alone
\* init_state: the session starts with an empty saved_jobs list.
InitStore == IdleStore /\ IdleFilter /\ IdleFetch /\ IdleSession /\ pc = "store"

SaveJob ==
    \E row \in Postings :
        /\ pc = "store"
        /\ job_row' = row
        /\ saved_jobs' = save_job(saved_jobs, row)
        /\ UNCHANGED <<pc, filterVars, fetchVars, sessionVars>>

NextStore == SaveJob
SpecStore == InitStore /\ [][NextStore]_vars

\* ---------------------------------------------------------------- the filter alone
InitFilter ==
    /\ IdleStore /\ IdleFetch /\ IdleSession
    /\ pc = "filter"
    /\ f_jobs \in SeqsUpTo(FilterJobs, MaxJobs)
    /\ f_kw \in Keywords \X Keywords \X Keywords
    /\ f_out = <<>>

FilterResults ==
    /\ pc = "filter"
    /\ f_out' = filter_results(f_jobs, f_kw[1], f_kw[2], f_kw[3])
    /\ pc' = "filtered"
    /\ UNCHANGED <<f_jobs, f_kw, storeVars, fetchVars, sessionVars>>

NextFilter == FilterResults
SpecFilter == InitFilter /\ [][NextFilter]_vars

\* ---------------------------------------------------------------- one scraper call
Handle == <<"acme">>

InitScrape ==
    /\ IdleStore /\ IdleFilter /\ IdleSession
    /\ companies_input = <<>> /\ out = <<>> /\ jobs = <<>> /\ raised = FALSE /\ log = <<>>
    /\ idx = 1
    /\ \/ pc = "lever_json" /\ lever_targets = <<Handle>> /\ greenhouse_targets = <<>>
       \/ pc = "greenhouse" /\ lever_targets = <<>> /\ greenhouse_targets = <<Handle>>

NextScrape ==
    \/ LeverJsonRequest(LeverJsonResponses)
    \/ LeverHtmlRequest(LeverHtmlResponses)
    \/ GreenhouseRequest(GreenhouseResponses)

SpecScrape == InitScrape /\ [][NextScrape]_vars

\* ---------------------------------------------------------------- a search: parse and fetch
FetchLines ==
    {<<>>, <<"a">>, <<"a", " ", "(lever)">>, <<"b", " ", "(lever)">>,
     <<"a", " ", "(greenhouse)">>, <<"b", " ", "(greenhouse)">>}

InitFetch ==
    /\ IdleStore /\ IdleFilter /\ IdleSession
    /\ pc = "form"
    /\ companies_input \in SeqsUpTo(FetchLines, MaxLines)
    /\ lever_targets = <<>> /\ greenhouse_targets = <<>>
    /\ idx = 0 /\ out = <<>> /\ jobs = <<>> /\ raised = FALSE /\ log = <<>>

NextFetch ==
    \/ Submit
    \/ LeverJsonRequest(FewLeverJsonResponses)
    \/ LeverHtmlRequest(FewLeverHtmlResponses)
    \/ GreenhouseRequest(FewGreenhouseResponses)

SpecFetch == InitFetch /\ [][NextFetch]_vars

\* ---------------------------------------------------------------- the parsing alone
LineAtoms == {"a", " ", "(lever)", "(Lever)", "(greenhouse)", "(GREENHOUSE)"}
Lines == SeqsUpTo(LineAtoms, MaxLineLen)

InitParse ==
    /\ IdleStore /\ IdleFilter /\ IdleSession
    /\ pc = "form"
    /\ companies_input \in SeqsUpTo(Lines, MaxLines)
    /\ lever_targets = <<>> /\ greenhouse_targets = <<>>
    /\ idx = 0 /\ out = <<>> /\ jobs = <<>> /\ raised = FALSE /\ log = <<>>

NextParse == Submit
SpecParse == InitParse /\ [][NextParse]_vars

\* ---------------------------------------------------------------- the session
InitSession ==
    /\ IdleStore /\ IdleFilter /\ IdleFetch /\ IdleSession
    /\ pc = "page"

\* A click on "Search Jobs": the run shows the rows the search gives.
SearchRun ==
    \E rows \in SeqsUpTo(Postings, MaxRows) :
        LET r == MainRun("search", rows, 0, saved_jobs)
        IN  /\ pc = "page"
            /\ trigger' = "search"
            /\ all_jobs_df' = r.all_jobs_df
            /\ saved_jobs' = r.saved_jobs
            /\ pick' = 0
            /\ UNCHANGED <<pc, job_row, selected, filterVars, fetchVars>>

\* Another index is chosen in the selectbox, which is on the page after a search
\* with matches: the change starts a run.
PickRun ==
    \E k \in 0..(Len(all_jobs_df) - 1) :
        LET r == MainRun("pick", <<>>, k, saved_jobs)
        IN  /\ pc = "page"
            /\ k # pick
            /\ trigger' = "pick"
            /\ pick' = k
            /\ all_jobs_df' = r.all_jobs_df
            /\ saved_jobs' = r.saved_jobs
            /\ UNCHANGED <<pc, job_row, selected, filterVars, fetchVars>>

\* A click on "Save Selected", which is on the page after a search with matches.
SaveRun ==
    LET r == MainRun("save", <<>>, pick, saved_jobs)
    IN  /\ pc = "page"
        /\ all_jobs_df # <<>>
        /\ trigger' = "save"
        /\ selected' = all_jobs_df[pick + 1]
        /\ all_jobs_df' = r.all_jobs_df
        /\ saved_jobs' = r.saved_jobs
        /\ UNCHANGED <<pc, pick, job_row, filterVars, fetchVars>>

NextSession == SearchRun \/ PickRun \/ SaveRun
SpecSession == InitSession /\ [][NextSession]_vars

\* ================================================================ claims

\* C1: starting from the empty list, after any sequence of save_job calls no two
\* entries of saved_jobs share a url; a call whose url is already present leaves
\* the list unchanged, and one whose url is absent appends exactly that posting.
C1_SaveJobDedup ==
    /\ [](\A i, j \in 1..Len(saved_jobs) :
            saved_jobs[i].url = saved_jobs[j].url => i = j)
    /\ [][/\ job_row'.url \in UrlsOf(saved_jobs) => saved_jobs' = saved_jobs
          /\ job_row'.url \notin UrlsOf(saved_jobs) =>
                saved_jobs' = saved_jobs \o <<job_row'>>]_vars

\* A save of a posting whose url is present under another title, with two saved.
C1_Witness ==
    /\ Len(saved_jobs) >= 2
    /\ job_row.url \in UrlsOf(saved_jobs)
    /\ \A i \in 1..Len(saved_jobs) : saved_jobs[i] # job_row

\* C8 as amended: filter_results returns, in input order and unmodified, exactly
\* the postings for which every trimmed, lower-cased keyword is empty or a
\* substring of its text: the title; the location, a space, the title; the title,
\* company, location and source joined by single spaces.
C8_Matches(job, kw) ==
    LET role == Lower(Strip(kw[1]))
        loc == Lower(Strip(kw[2]))
        extra == Lower(Strip(kw[3]))
    IN  /\ role = <<>> \/ Contains(role, Lower(job.title))
        /\ loc = <<>> \/ Contains(loc, Lower(job.location \o SP \o job.title))
        /\ extra = <<>> \/
             Contains(extra, Lower(job.title \o SP \o job.company \o SP
                                   \o job.location \o SP \o job.source))

C8_FilterExact ==
    pc = "filtered" =>
        /\ f_out = SelectSeq(f_jobs, LAMBDA job : C8_Matches(job, f_kw))
        /\ (\A k \in 1..3 : Strip(f_kw[k]) = <<>>) => f_out = f_jobs

\* Two postings, the first dropped on the location keyword alone, the second kept.
C8_Witness ==
    /\ pc = "filtered"
    /\ Len(f_jobs) = 2 /\ f_out = <<f_jobs[2]>>
    /\ Strip(f_kw[1]) = <<>> /\ Strip(f_kw[3]) = <<>> /\ Strip(f_kw[2]) # <<>>

\* C8 as stated: the location and the broad keyword are looked up in the plain
\* concatenation of the fields.
C8_Original_Matches(job, kw) ==
    LET role == Lower(Strip(kw[1]))
        loc == Lower(Strip(kw[2]))
        extra == Lower(Strip(kw[3]))
    IN  /\ role = <<>> \/ Contains(role, Lower(job.title))
        /\ loc = <<>> \/ Contains(loc, Lower(job.location \o job.title))
        /\ extra = <<>> \/
             Contains(extra, Lower(job.title \o job.company \o job.location \o job.source))

C8_Original ==
    pc = "filtered" => f_out = SelectSeq(f_jobs, LAMBDA job : C8_Original_Matches(job, f_kw))


\* ---------------------------------------------------------------- shared by the claims below
IsString(v) == v.kind = "str"
Non2xx(resp) == resp.net = "ok" /\ resp.status \notin 200..299

\* The structured endpoint answers successfully with an empty job list.
EmptyJobList(platform, resp) ==
    /\ resp.net = "ok" /\ resp.status = StatusOK
    /\ IF platform = "Lever"
       THEN resp.json_ctype /\ resp.body = Body("array", <<>>)
       ELSE resp.body \in {Body("object", <<>>), Body("empty_object", <<>>)}

\* The structured endpoint answers successfully with a job array.
JobArray(platform, resp) ==
    /\ resp.net = "ok" /\ resp.status = StatusOK
    /\ IF platform = "Lever"
       THEN resp.json_ctype /\ resp.body.shape = "array"
       ELSE resp.body.shape = "object"

\* C2: in scrape_lever the HTML listing request is issued only when the
\* structured path has yielded no records: whenever the request is about to be
\* made, the out list is empty.
C2_HtmlOnlyWhenNothing == pc = "lever_html" => out = <<>>

\* C3 as amended: the aggregated list is the concatenation of the results of the
\* Lever targets, in the order they were entered, followed by the results of
\* the Greenhouse targets, in the order they were entered: for distinct targets,
\* a Lever record never follows a Greenhouse record, and within one platform the
\* records of an earlier line all precede the records of a later line.
C3_TargetOf(line) ==
    LET t == ParseCompanies(<<line>>)
    IN  IF t.lever # <<>> THEN <<"Lever", t.lever[1]>>
        ELSE IF t.greenhouse # <<>> THEN <<"Greenhouse", t.greenhouse[1]>>
        ELSE <<"", <<>>>>

C3_LineOf(rec) ==
    CHOOSE i \in 1..Len(companies_input) :
        C3_TargetOf(companies_input[i]) = <<rec.source, rec.company>>

C3_DistinctTargets ==
    \A i, j \in 1..Len(companies_input) :
        C3_TargetOf(companies_input[i]) = C3_TargetOf(companies_input[j]) => i = j

C3_PlatformThenInputOrder ==
    (pc = "done" /\ C3_DistinctTargets) =>
        \A p, q \in 1..Len(jobs) :
            p < q =>
                /\ ~(jobs[p].source = "Greenhouse" /\ jobs[q].source = "Lever")
                /\ jobs[p].source = jobs[q].source => C3_LineOf(jobs[p]) <= C3_LineOf(jobs[q])

\* A Greenhouse line entered before a Lever line, both with records.
C3_Witness ==
    /\ pc = "done" /\ Len(companies_input) = 2
    /\ C3_TargetOf(companies_input[1])[1] = "Greenhouse"
    /\ C3_TargetOf(companies_input[2])[1] = "Lever"
    /\ Len(jobs) >= 2
    /\ jobs[1].source = "Lever" /\ jobs[Len(jobs)].source = "Greenhouse"

\* C3 as stated: the order is the order of the lines, whatever their platforms.
C3_InputOrder ==
    (pc = "done" /\ C3_DistinctTargets)
    => \A p, q \in 1..Len(jobs) : p < q => C3_LineOf(jobs[p]) <= C3_LineOf(jobs[q])

\* C4: fetch_all_jobs never raises, whatever each target's requests meet; every
\* target is processed, a target whose requests fail (transport error, timeout,
\* non-200 status, a body that is no JSON or not of the expected shape)
\* contributes nothing, and every target contributes what it yields alone.
C4_Alone(e) ==
    IF e.platform = "Lever" THEN scrape_lever(e.id, e.api, e.html)
    ELSE GreenhouseBody(e.id, e.api).out

RECURSIVE C4_Concat(_)
C4_Concat(entries) ==
    IF entries = <<>> THEN <<>> ELSE C4_Alone(Head(entries)) \o C4_Concat(Tail(entries))

C4_ApiFails(e) ==
    \/ e.api.net # "ok"
    \/ e.api.status # StatusOK
    \/ e.platform = "Lever" /\ ~e.api.json_ctype
    \/ e.api.body.shape \in {"invalid", "null"}

C4_Fails(e) ==
    /\ C4_ApiFails(e)
    /\ e.platform = "Lever" => (e.html.net # "ok" \/ e.html.status # StatusOK)

C4_NeverRaisesIsolated ==
    /\ ~raised
    /\ pc = "done" =>
        /\ [i \in 1..Len(log) |-> <<log[i].platform, log[i].id>>]
             = [i \in 1..Len(lever_targets) |-> <<"Lever", lever_targets[i]>>]
               \o [i \in 1..Len(greenhouse_targets) |-> <<"Greenhouse", greenhouse_targets[i]>>]
        /\ jobs = C4_Concat(log)
        /\ \A i \in 1..Len(log) : C4_Fails(log[i]) => C4_Alone(log[i]) = <<>>

\* The first target met a timeout, the second one still contributed its records.
C4_Witness ==
    /\ pc = "done" /\ Len(log) = 2
    /\ log[1].platform = "Greenhouse" /\ log[1].api.net = "timeout"
    /\ jobs # <<>> /\ jobs = C4_Alone(log[2])

\* C5: when the structured response is a job array with a single malformed
\* entry, the adapter still emits one record for every entry (the malformed one
\* with empty-string fields), and the entries after it are not dropped: after the
\* structured path the list holds as many records as the array has entries.
C5_Structured == IF pc = "lever_html" THEN out ELSE jobs

C5_OneMalformed(items) ==
    Cardinality({i \in 1..Len(items) :
                    items[i] \in MalformedLeverItems \cup MalformedGreenhouseItems}) = 1

C5_OneRecordPerEntry ==
    (/\ pc \in {"lever_html", "done"}
     /\ log # <<>> /\ log[1].html = NoPage
     /\ JobArray(log[1].platform, log[1].api)
     /\ C5_OneMalformed(log[1].api.body.items))
    => Len(C5_Structured) = Len(log[1].api.body.items)

\* C6 as amended: scrape_greenhouse yields the empty sequence and raises nothing
\* both when the endpoint answers non-2xx and when it answers with an empty job
\* list.  scrape_lever raises nothing either, but on a non-2xx answer it returns
\* the records of the HTML listing page (none when that request fails or is not
\* answered 200), while on an empty job list it returns the empty sequence
\* without requesting the HTML page.
C6_NonOkLikeEmpty ==
    (pc = "done" /\ log # <<>>) =>
      LET e == log[1]
      IN  /\ ~raised
          /\ (e.platform = "Greenhouse" /\ (Non2xx(e.api) \/ EmptyJobList("Greenhouse", e.api)))
                => jobs = <<>>
          /\ (e.platform = "Lever" /\ EmptyJobList("Lever", e.api))
                => jobs = <<>> /\ e.html = NoPage
          /\ (e.platform = "Lever" /\ Non2xx(e.api)) =>
                /\ e.html # NoPage
                /\ (e.html.net # "ok" \/ e.html.status # StatusOK) => jobs = <<>>
                /\ (e.html.net = "ok" /\ e.html.status = StatusOK) =>
                      /\ Len(jobs) = Len(e.html.postings)
                      /\ \A i \in 1..Len(jobs) :
                            /\ jobs[i].source = "Lever" /\ jobs[i].company = e.id
                            /\ jobs[i].date_posted = EmptyStr

\* The structured endpoint answered 500 and the listing page gave two records.
C6_Witness ==
    /\ pc = "done" /\ log # <<>>
    /\ log[1].platform = "Lever" /\ log[1].api.net = "ok" /\ log[1].api.status = 500
    /\ Len(jobs) = 2

\* C6 as stated: in both cases, and for both adapters, the output is the empty
\* sequence.
C6_Original ==
    (/\ pc = "done" /\ log # <<>>
     /\ Non2xx(log[1].api) \/ EmptyJobList(log[1].platform, log[1].api))
    => jobs = <<>> /\ ~raised

\* C7: every record the adapters emit has title, location, url and date_posted
\* as strings (the empty string when the source value is missing or null).
C7_Emitted == jobs \o out

C7_FieldsAreStrings ==
    \A i \in 1..Len(C7_Emitted) :
        /\ IsString(C7_Emitted[i].title) /\ IsString(C7_Emitted[i].location)
        /\ IsString(C7_Emitted[i].url) /\ IsString(C7_Emitted[i].date_posted)

\* C9: a line "<identifier> (<tag>)" is routed to the platform its tag names
\* whatever the tag's letter case, with the identifier trimmed; a line without
\* tag is routed to Lever whole.
C9_Tags == {"(lever)", "(greenhouse)"}
C9_HasTag(s) == \E i \in 1..Len(s) : LowerAtom(s[i]) \in C9_Tags

\* <<platform, identifier>> of a trimmed line of one of the two forms.
C9_Route(raw) ==
    IF C9_HasTag(raw)
    THEN <<LowerAtom(raw[Len(raw)]), Strip(SubSeq(raw, 1, Len(raw) - 1))>>
    ELSE <<"(lever)", raw>>

\* The line is "<identifier> (<tag>)" or carries no tag at all.
C9_WellFormed(raw) ==
    C9_HasTag(raw) =>
        /\ ~C9_HasTag(SubSeq(raw, 1, Len(raw) - 1))
        /\ Strip(SubSeq(raw, 1, Len(raw) - 1)) # <<>>

C9_Routed(tag) ==
    LET raws == SelectSeq([i \in 1..Len(companies_input) |-> Strip(companies_input[i])],
                          LAMBDA raw : raw # <<>>)
        mine == SelectSeq(raws, LAMBDA raw : C9_Route(raw)[1] = tag)
    IN  [i \in 1..Len(mine) |-> C9_Route(mine[i])[2]]

C9_TagAnyCase ==
    (/\ pc # "form"
     /\ \A i \in 1..Len(companies_input) : C9_WellFormed(Strip(companies_input[i])))
    => /\ lever_targets = C9_Routed("(lever)")
       /\ greenhouse_targets = C9_Routed("(greenhouse)")

\* C10: a click on "Save Selected" leads to save_job being called with the
\* selected row in the run the click starts: after that run the selected posting
\* (or an entry with its url) is in saved_jobs.
C10_SaveClickSaves == trigger = "save" => selected.url \in UrlsOf(saved_jobs)

====
